---- MODULE Spec2Model ----
(***************************************************************************)
(* A model of read_pgn.py: the feature extractors over a board position    *)
(* and the game scanner process_pgn_file.                                  *)
(*                                                                         *)
(* The chess rules engine (python-chess) is a library the program calls.   *)
(* Its operations are modelled by what they compute on a board given as a  *)
(* piece map (square -> piece, occupied squares only) and a side to move,  *)
(* for positions with no castling right and no en-passant square open.     *)
(* Squares are 0..63, a1 = 0, h8 = 63, as in the library; chess.WHITE is   *)
(* TRUE and chess.BLACK is FALSE.  Python's None is the value None below;  *)
(* strings that the program parses are sequences of one-character strings. *)
(* The float 0.5 is the pair <<1, 2>>, an integer n the pair <<n, 1>>.     *)
(***************************************************************************)
EXTENDS Integers, Sequences, FiniteSets, TLC

None == -1

WHITE == TRUE
BLACK == FALSE

PAWN == 1
KNIGHT == 2
BISHOP == 3
ROOK == 4
QUEEN == 5
KING == 6

SQUARES == 0 .. 63

square(file, rank) == rank * 8 + file
square_file(sq) == sq % 8
square_rank(sq) == sq \div 8

Piece(pt, c) == [piece_type |-> pt, color |-> c]

Abs(x) == IF x < 0 THEN -x ELSE x
Sgn(x) == IF x < 0 THEN -1 ELSE IF x > 0 THEN 1 ELSE 0
Max(a, b) == IF a >= b THEN a ELSE b

\* Python truthiness of an optional integer: None and 0 are both falsy.
Truthy(x) == x # None /\ x # 0

(***************************************************************************)
(* The rules engine.                                                       *)
(***************************************************************************)

\* board.king(color): the square of that colour's king, None without one
\* (the highest square when the position holds several).
KingSquares(board, color) ==
    {s \in DOMAIN board.piece_map :
        board.piece_map[s] = Piece(KING, color)}

king(board, color) ==
    IF KingSquares(board, color) = {} THEN None
    ELSE CHOOSE s \in KingSquares(board, color) :
            \A t \in KingSquares(board, color) : t <= s

\* The squares strictly between two squares of one rank, file or diagonal.
Between(a, b) ==
    LET df == square_file(b) - square_file(a)
        dr == square_rank(b) - square_rank(a)
        n  == Max(Abs(df), Abs(dr))
    IN  {square(square_file(a) + k * Sgn(df), square_rank(a) + k * Sgn(dr)) :
            k \in 1 .. (n - 1)}

\* Whether the piece standing on `from` attacks the square `to`.
Attacks(pm, from, to) ==
    LET p  == pm[from]
        df == square_file(to) - square_file(from)
        dr == square_rank(to) - square_rank(from)
        straight == (df = 0) # (dr = 0)
        diagonal == Abs(df) = Abs(dr) /\ df # 0
        clear    == Between(from, to) \cap DOMAIN pm = {}
    IN  CASE p.piece_type = PAWN ->
                Abs(df) = 1 /\ dr = (IF p.color = WHITE THEN 1 ELSE -1)
          [] p.piece_type = KNIGHT ->
                {Abs(df), Abs(dr)} = {1, 2}
          [] p.piece_type = KING ->
                Max(Abs(df), Abs(dr)) = 1
          [] p.piece_type = ROOK ->
                straight /\ clear
          [] p.piece_type = BISHOP ->
                diagonal /\ clear
          [] p.piece_type = QUEEN ->
                (straight \/ diagonal) /\ clear

\* board.attackers(color, square): the squares of the pieces of `color` that
\* attack `sq` (pins are ignored, as in the library).
attackers(board, color, sq) ==
    {s \in DOMAIN board.piece_map :
        /\ board.piece_map[s].color = color
        /\ Attacks(board.piece_map, s, sq)}

\* board.piece_map().values(): the pieces, as the squares that hold them.
PiecesOf(board, color) ==
    {s \in DOMAIN board.piece_map : board.piece_map[s].color = color}

\* board.pieces(piece_type, color)
pieces(board, piece_type, color) ==
    {s \in DOMAIN board.piece_map :
        board.piece_map[s] = Piece(piece_type, color)}

\* board.push(move): the piece goes from from_square to to_square, taking
\* what stands there, and the turn passes.
push(board, move) ==
    LET pm == board.piece_map
        moved == IF move.promotion # None
                 THEN Piece(move.promotion, pm[move.from_square].color)
                 ELSE pm[move.from_square]
    IN  [piece_map |->
            [s \in (DOMAIN pm \ {move.from_square}) \cup {move.to_square} |->
                IF s = move.to_square THEN moved ELSE pm[s]],
         turn |-> ~board.turn]

Move(from, to) == [from_square |-> from, to_square |-> to, promotion |-> None]

PromotionsTo(to) ==
    IF square_rank(to) \in {0, 7} THEN {QUEEN, ROOK, BISHOP, KNIGHT} ELSE {None}

\* The pawn advances of the pawn on `s`: one step onto an empty square, and
\* a second step when the first lands on the third (sixth, for Black) rank
\* or the one before it.
PawnAdvances(board, s) ==
    LET pm   == board.piece_map
        up   == IF pm[s].color = WHITE THEN 8 ELSE -8
        one  == s + up
        two  == s + 2 * up
        okOne == one \in SQUARES /\ one \notin DOMAIN pm
        okTwo == /\ okOne
                 /\ two \in SQUARES /\ two \notin DOMAIN pm
                 /\ square_rank(two) \in
                        (IF pm[s].color = WHITE THEN {2, 3} ELSE {5, 4})
    IN  (IF okOne THEN {one} ELSE {}) \cup (IF okTwo THEN {two} ELSE {})

\* The squares the piece on `s` may move to, before the king's safety is
\* looked at.
Targets(board, s) ==
    LET pm == board.piece_map
        c  == pm[s].color
    IN  IF pm[s].piece_type = PAWN
        THEN {t \in SQUARES : /\ Attacks(pm, s, t)
                              /\ t \in DOMAIN pm
                              /\ pm[t].color # c}
             \cup PawnAdvances(board, s)
        ELSE {t \in SQUARES : /\ Attacks(pm, s, t)
                              /\ ~(t \in DOMAIN pm /\ pm[t].color = c)}

pseudo_legal_moves(board) ==
    UNION {
        UNION {
            {[from_square |-> s, to_square |-> t, promotion |-> pr] :
                pr \in (IF board.piece_map[s].piece_type = PAWN
                        THEN PromotionsTo(t) ELSE {None})}
            : t \in Targets(board, s)}
        : s \in PiecesOf(board, board.turn)}

\* A move is legal when it does not leave the mover's own king attacked; a
\* side without a king may make every pseudo-legal move.
is_safe(board, move) ==
    LET after == push(board, move)
        k     == king(after, board.turn)
    IN  k = None \/ attackers(after, ~board.turn, k) = {}

legal_moves(board) ==
    IF king(board, board.turn) = None
    THEN pseudo_legal_moves(board)
    ELSE {m \in pseudo_legal_moves(board) : is_safe(board, m)}

is_check(board) ==
    /\ king(board, board.turn) # None
    /\ attackers(board, ~board.turn, king(board, board.turn)) # {}

\* any(board.generate_legal_moves())
has_legal_move(board) ==
    IF king(board, board.turn) = None
    THEN pseudo_legal_moves(board) # {}
    ELSE \E m \in pseudo_legal_moves(board) : is_safe(board, m)

is_checkmate(board) == is_check(board) /\ ~has_legal_move(board)

is_stalemate(board) == ~is_check(board) /\ ~has_legal_move(board)

\* int(bool)
BoolInt(b) == IF b THEN 1 ELSE 0

(***************************************************************************)
(* Dictionaries: a dict is a function on its key set.                      *)
(***************************************************************************)

\* dict.update(other): other's entries are written over d's.
update(d, other) ==
    [k \in DOMAIN d \cup DOMAIN other |->
        IF k \in DOMAIN other THEN other[k] ELSE d[k]]

\* d[key] = value
setitem(d, key, value) ==
    [k \in DOMAIN d \cup {key} |-> IF k = key THEN value ELSE d[k]]

EmptyDict == [k \in {} |-> 0]

(***************************************************************************)
(* The feature extractors.                                                 *)
(***************************************************************************)

piece_values ==
    [pt \in PAWN .. KING |->
        CASE pt = PAWN -> 1
          [] pt = KNIGHT -> 3
          [] pt = BISHOP -> 3
          [] pt = ROOK -> 5
          [] pt = QUEEN -> 9
          [] pt = KING -> 0]

\* sum(piece_values[piece.piece_type] for piece in ... if piece.color == color)
RECURSIVE SumValues(_, _)
SumValues(pm, S) ==
    IF S = {} THEN 0
    ELSE LET s == CHOOSE x \in S : TRUE
         IN  piece_values[pm[s].piece_type] + SumValues(pm, S \ {s})

material(board, color) == SumValues(board.piece_map, PiecesOf(board, color))

\* get_material_features with the difference taken the other way round.
get_material_features_black_first(board) ==
    LET white_material == material(board, WHITE)
        black_material == material(board, BLACK)
    IN  [white_material |-> white_material,
         black_material |-> black_material,
         material_diff  |-> black_material - white_material]

get_material_features(board) ==
    LET white_material == material(board, WHITE)
        black_material == material(board, BLACK)
    IN  [white_material |-> white_material,
         black_material |-> black_material,
         material_diff  |-> white_material - black_material]

\* chess.piece_name(piece_type)
piece_name(pt) ==
    CASE pt = PAWN -> "pawn"
      [] pt = KNIGHT -> "knight"
      [] pt = BISHOP -> "bishop"
      [] pt = ROOK -> "rook"
      [] pt = QUEEN -> "queen"
      [] pt = KING -> "king"

\* f'{side}_{piece_name}s'
CountKey(side, name) ==
    CASE side = "white" /\ name = "pawn"   -> "white_pawns"
      [] side = "white" /\ name = "knight" -> "white_knights"
      [] side = "white" /\ name = "bishop" -> "white_bishops"
      [] side = "white" /\ name = "rook"   -> "white_rooks"
      [] side = "white" /\ name = "queen"  -> "white_queens"
      [] side = "white" /\ name = "king"   -> "white_kings"
      [] side = "black" /\ name = "pawn"   -> "black_pawns"
      [] side = "black" /\ name = "knight" -> "black_knights"
      [] side = "black" /\ name = "bishop" -> "black_bishops"
      [] side = "black" /\ name = "rook"   -> "black_rooks"
      [] side = "black" /\ name = "queen"  -> "black_queens"
      [] side = "black" /\ name = "king"   -> "black_kings"

CountedTypes == <<PAWN, KNIGHT, BISHOP, ROOK, QUEEN>>

\* The loop body of get_piece_count_features, from the i-th piece type on.
RECURSIVE PieceCountLoop(_, _, _)
PieceCountLoop(board, i, features) ==
    IF i > Len(CountedTypes) THEN features
    ELSE LET piece_type  == CountedTypes[i]
             white_count == Cardinality(pieces(board, piece_type, WHITE))
             black_count == Cardinality(pieces(board, piece_type, BLACK))
             name        == piece_name(piece_type)
         IN  PieceCountLoop(board, i + 1,
                setitem(setitem(features, CountKey("white", name), white_count),
                        CountKey("black", name), black_count))

get_piece_count_features(board) == PieceCountLoop(board, 1, EmptyDict)

\* The inner loop over the ranks of one file, from `rank` on in steps of
\* `step`: 1 at the first pawn of `color` met (the break), 0 when the ranks
\* run out.
RECURSIVE ScanFile(_, _, _, _, _)
ScanFile(board, check_file, rank, step, color) ==
    IF rank < 0 \/ rank > 7 THEN 0
    ELSE LET sq == square(check_file, rank)
         IN  IF /\ sq \in DOMAIN board.piece_map
                /\ board.piece_map[sq].piece_type = PAWN
                /\ board.piece_map[sq].color = color
             THEN 1
             ELSE ScanFile(board, check_file, rank + step, step, color)

\* The outer loop over file_offset in [-1, 0, 1].
RECURSIVE ShieldLoop(_, _, _, _)
ShieldLoop(board, king_square, color, offsets) ==
    IF offsets = <<>> THEN 0
    ELSE LET king_file  == square_file(king_square)
             king_rank  == square_rank(king_square)
             check_file == king_file + Head(offsets)
             step       == IF color = WHITE THEN 1 ELSE -1
         IN  (IF 0 <= check_file /\ check_file <= 7
              THEN ScanFile(board, check_file, king_rank + step, step, color)
              ELSE 0)
             + ShieldLoop(board, king_square, color, Tail(offsets))

pawn_shield(board, king_square, color) ==
    ShieldLoop(board, king_square, color, <<-1, 0, 1>>)

\* `if white_king_square:` and `if black_king_square:` test the square's
\* truth value.
HasKingBranch(king_square) == Truthy(king_square)

\* WhiteKingSafety whose else branch sets no pawn-shield key.
WhiteKingSafety_no_default(board) ==
    LET white_king_square == king(board, WHITE)
    IN  IF HasKingBranch(white_king_square)
        THEN [white_king_attackers |->
                Cardinality(attackers(board, BLACK, white_king_square)),
              white_pawn_shield |->
                pawn_shield(board, white_king_square, WHITE)]
        ELSE [white_king_attackers |-> 0]

WhiteKingSafety(board) ==
    LET white_king_square == king(board, WHITE)
    IN  IF HasKingBranch(white_king_square)
        THEN [white_king_attackers |->
                Cardinality(attackers(board, BLACK, white_king_square)),
              white_pawn_shield |->
                pawn_shield(board, white_king_square, WHITE)]
        ELSE [white_king_attackers |-> 0, white_pawn_shield |-> 0]

BlackKingSafety(board) ==
    LET black_king_square == king(board, BLACK)
    IN  IF HasKingBranch(black_king_square)
        THEN [black_king_attackers |->
                Cardinality(attackers(board, WHITE, black_king_square)),
              black_pawn_shield |->
                pawn_shield(board, black_king_square, BLACK)]
        ELSE [black_king_attackers |-> 0, black_pawn_shield |-> 0]

get_king_safety_features(board) ==
    update(update(EmptyDict, WhiteKingSafety(board)), BlackKingSafety(board))

get_mobility_features(board) ==
    [to_move     |-> IF board.turn = WHITE THEN 1 ELSE 0,
     legal_moves |-> Cardinality(legal_moves(board))]

get_game_state_features(board) ==
    [is_check     |-> BoolInt(is_check(board)),
     is_checkmate |-> BoolInt(is_checkmate(board)),
     is_stalemate |-> BoolInt(is_stalemate(board))]

extract_board_features(board) ==
    update(update(update(update(update(EmptyDict,
        get_material_features(board)),
        get_piece_count_features(board)),
        get_king_safety_features(board)),
        get_mobility_features(board)),
        get_game_state_features(board))

(***************************************************************************)
(* int(s) on a string: surrounding blanks are dropped, one sign may lead,  *)
(* and the rest is decimal digits, single underscores allowed between two  *)
(* digits.  Anything else raises ValueError.                               *)
(***************************************************************************)

DigitChars == <<"0", "1", "2", "3", "4", "5", "6", "7", "8", "9">>

IsDigit(c) == \E i \in DOMAIN DigitChars : DigitChars[i] = c

DigitValue(c) == (CHOOSE i \in DOMAIN DigitChars : DigitChars[i] = c) - 1

RECURSIVE LStrip(_)
LStrip(s) == IF s # <<>> /\ Head(s) = " " THEN LStrip(Tail(s)) ELSE s

RECURSIVE RStrip(_)
RStrip(s) ==
    IF s # <<>> /\ s[Len(s)] = " " THEN RStrip(SubSeq(s, 1, Len(s) - 1)) ELSE s

Strip(s) == RStrip(LStrip(s))

Unsigned(s) == IF s # <<>> /\ Head(s) \in {"+", "-"} THEN Tail(s) ELSE s

IsDigitString(d) ==
    /\ d # <<>>
    /\ IsDigit(d[1]) /\ IsDigit(d[Len(d)])
    /\ \A i \in DOMAIN d : IsDigit(d[i]) \/ d[i] = "_"
    /\ \A i \in 1 .. (Len(d) - 1) : ~(d[i] = "_" /\ d[i + 1] = "_")

RECURSIVE Decimal(_, _)
Decimal(d, acc) ==
    IF d = <<>> THEN acc
    ELSE IF Head(d) = "_" THEN Decimal(Tail(d), acc)
    ELSE Decimal(Tail(d), acc * 10 + DigitValue(Head(d)))

\* Whether int(s) raises ValueError.
int_raises(s) == ~IsDigitString(Unsigned(Strip(s)))

\* The value of int(s) when it does not raise.
int(s) ==
    LET t == Strip(s)
    IN  IF t # <<>> /\ Head(t) = "-"
        THEN -Decimal(Unsigned(t), 0)
        ELSE Decimal(Unsigned(t), 0)

\* headers.get(key, default)
get(headers, key, default) ==
    IF key \in DOMAIN headers THEN headers[key] ELSE default

(***************************************************************************)
(* Positions and games the model draws its inputs from.                    *)
(***************************************************************************)

BackRank == <<ROOK, KNIGHT, BISHOP, QUEEN, KING, BISHOP, KNIGHT, ROOK>>

\* chess.Board(): the standard starting position, White to move.
StartingBoard ==
    [piece_map |->
        [s \in (0 .. 15) \cup (48 .. 63) |->
            CASE s <= 7  -> Piece(BackRank[s + 1], WHITE)
              [] s <= 15 -> Piece(PAWN, WHITE)
              [] s <= 55 -> Piece(PAWN, BLACK)
              [] OTHER   -> Piece(BackRank[s - 55], BLACK)],
     turn |-> WHITE]

\* The set of <<square, piece>> pairs as a piece map.
PieceMapOf(placed) ==
    [s \in {pl[1] : pl \in placed} |->
        (CHOOSE pl \in placed : pl[1] = s)[2]]

\* "2r4k/8/8/8/8/8/PP6/K7 w - - 0 1":
\* White Ka1, Pa2, Pb2; Black Kh8, Rc8; White to move.
CornerBoard ==
    [piece_map |->
        PieceMapOf({<<0, Piece(KING, WHITE)>>, <<8, Piece(PAWN, WHITE)>>,
                    <<9, Piece(PAWN, WHITE)>>, <<63, Piece(KING, BLACK)>>,
                    <<58, Piece(ROOK, BLACK)>>}),
     turn |-> WHITE]

\* chess.Board(fen) for the FEN header values of the games below.
BoardFromFen(fen) ==
    CASE fen = "corner" -> CornerBoard
      [] OTHER -> StartingBoard

\* game.board(): the position of the game's FEN header, the standard
\* starting position without one.  Each call builds a new board.
game_board(g) ==
    IF "FEN" \in DOMAIN g.headers
    THEN BoardFromFen(g.headers["FEN"])
    ELSE StartingBoard

\* 1. e4 d5 2. exd5 Qxd5 3. Nc3 Qa5 4. Nf3 Qxa2
StandardLine ==
    <<Move(12, 28), Move(51, 35), Move(28, 35), Move(59, 35),
      Move(1, 18), Move(35, 32), Move(6, 21), Move(32, 8)>>

\* From CornerBoard: 1. b3 Rc1+ 2. Kb2 Rc5 3. a4 Rc2+ 4. Kxc2 Kg8
CornerLine ==
    <<Move(9, 17), Move(58, 2), Move(0, 9), Move(2, 34),
      Move(8, 24), Move(34, 10), Move(9, 10), Move(63, 62)>>

Game(headers, moves) == [headers |-> headers, moves |-> moves]

Prefix(line, n) == SubSeq(line, 1, n)

\* Header values of the ratings, as the characters of the string.
Elo15 == <<"1", "5">>
Elo20 == <<"2", "0">>

\* The game records a stream is made of, by name, and the game that
\* chess.pgn.read_game parses from each: qualifying games of different
\* lengths and starting positions, and one game for each way a filter can
\* reject.
parse_game(record) ==
    CASE record = "white_wins" ->
            Game([Result |-> "1-0", WhiteElo |-> Elo15, BlackElo |-> Elo20],
                 StandardLine)
      [] record = "draw_corner" ->
            Game([Result |-> "1/2-1/2", WhiteElo |-> Elo20,
                  BlackElo |-> Elo15, FEN |-> "corner"],
                 Prefix(CornerLine, 5))
      [] record = "black_wins_short" ->
            Game([Result |-> "0-1", WhiteElo |-> <<" ", "7">>,
                  BlackElo |-> <<"+", "1", "_", "2">>],
                 Prefix(StandardLine, 3))
      [] record = "white_elo_question" ->
            Game([Result |-> "0-1", WhiteElo |-> <<"?">>, BlackElo |-> Elo15],
                 StandardLine)
      [] record = "unfinished" ->
            Game([Result |-> "*", WhiteElo |-> Elo15, BlackElo |-> Elo20],
                 StandardLine)
      [] record = "no_result" ->
            Game([WhiteElo |-> Elo15, BlackElo |-> Elo20], StandardLine)
      [] record = "odd_result" ->
            Game([Result |-> "1-O", WhiteElo |-> Elo15, BlackElo |-> Elo20],
                 StandardLine)
      [] record = "black_elo_text" ->
            Game([Result |-> "1-0", WhiteElo |-> Elo15,
                  BlackElo |-> <<"1", "x">>], StandardLine)
      [] record = "black_elo_question" ->
            Game([Result |-> "1-0", WhiteElo |-> Elo15, BlackElo |-> <<"?">>],
                 StandardLine)
      [] record = "no_white_elo" ->
            Game([Result |-> "1-0", BlackElo |-> Elo20], StandardLine)
      [] record = "empty_black_elo" ->
            Game([Result |-> "1/2-1/2", WhiteElo |-> Elo20,
                  BlackElo |-> <<>>], StandardLine)

Records ==
    {"white_wins", "draw_corner", "black_wins_short", "white_elo_question",
     "unfinished", "no_result", "odd_result", "black_elo_text",
     "black_elo_question", "no_white_elo", "empty_black_elo"}

MaxStream == 2
MaxTargetMove == 2
MaxCap == 2

RECURSIVE SeqsUpTo(_, _)
SeqsUpTo(S, n) ==
    IF n = 0 THEN {<<>>}
    ELSE LET shorter == SeqsUpTo(S, n - 1)
         IN  shorter \cup {Append(q, x) : q \in shorter, x \in S}

\* The three-game stream of the specification's worked example.
ExampleStream == <<"white_wins", "draw_corner", "white_elo_question">>

Streams == SeqsUpTo(Records, MaxStream) \cup {ExampleStream}

(***************************************************************************)
(* Boards extract_board_features is called on directly: the starting       *)
(* position, and each king on any square or absent with a few other        *)
(* pieces about.                                                           *)
(***************************************************************************)

MaxExtra == 2

ExtraPieces ==
    { <<8,  Piece(PAWN, WHITE)>>,    \* a2
      <<9,  Piece(PAWN, WHITE)>>,    \* b2
      <<17, Piece(PAWN, WHITE)>>,    \* b3
      <<54, Piece(PAWN, BLACK)>>,    \* g7
      <<10, Piece(KNIGHT, BLACK)>>,  \* c2
      <<56, Piece(ROOK, BLACK)>>,    \* a8
      <<36, Piece(QUEEN, WHITE)>> }  \* e5

KingPlacements(color, squares) ==
    {{}} \cup {{<<s, Piece(KING, color)>>} : s \in squares}

BlackKingSquares == {0, 60}

Placements ==
    { wk \cup bk \cup extra :
        wk \in KingPlacements(WHITE, SQUARES),
        bk \in KingPlacements(BLACK, BlackKingSquares),
        extra \in {e \in SUBSET ExtraPieces : Cardinality(e) <= MaxExtra} }

\* One piece to a square, and no two kings on touching squares.
Placeable(pl) ==
    \A a, b \in pl :
        /\ a[1] = b[1] => a = b
        /\ (a # b /\ a[2].piece_type = KING /\ b[2].piece_type = KING) =>
             Max(Abs(square_file(a[1]) - square_file(b[1])),
                 Abs(square_rank(a[1]) - square_rank(b[1]))) > 1

DirectBoards ==
    {StartingBoard} \cup
    { [piece_map |-> PieceMapOf(placed), turn |-> t] :
        placed \in {pl \in Placements : Placeable(pl)},
        t \in BOOLEAN }

(***************************************************************************)
(* The program state.                                                      *)
(***************************************************************************)

VARIABLES
    pc,               \* where the running call stands
    stream,           \* the game records of the text stream, in order
    pos,              \* how many of them read_game has consumed
    closed,           \* whether text_stream.close() has run
    target_move,      \* parameter
    max_games,        \* parameter, None or a positive integer
    games_data,       \* list of rows
    games_processed,
    game, result, target, white_elo, black_elo, board, move_count,
    features          \* the dict being built; extract_board_features' result

vars == <<pc, stream, pos, closed, target_move, max_games, games_data,
          games_processed, game, result, target, white_elo, black_elo,
          board, move_count, features>>

EmptyBoard == [piece_map |-> [s \in {} |-> Piece(PAWN, WHITE)], turn |-> WHITE]

NoGame == Game(EmptyDict, <<>>)

\* Locals that no statement has assigned yet.
LocalsUnset ==
    /\ game = NoGame
    /\ result = ""
    /\ target = <<>>
    /\ white_elo = <<>>
    /\ black_elo = <<>>
    /\ move_count = 0
    /\ features = EmptyDict

\* process_pgn_file(filename, target_move, max_games) has opened the stream.
InitScan ==
    /\ pc = "read"
    /\ stream \in Streams
    /\ pos = 0
    /\ closed = FALSE
    /\ target_move \in 1 .. MaxTargetMove
    /\ max_games \in {None} \cup (1 .. MaxCap)
    /\ games_data = <<>>
    /\ games_processed = 0
    /\ board = EmptyBoard
    /\ LocalsUnset

\* extract_board_features(board) is called on a board.
InitExtract ==
    /\ pc = "call"
    /\ board \in DirectBoards
    /\ stream = <<>>
    /\ pos = 0
    /\ closed = TRUE
    /\ target_move = 1
    /\ max_games = None
    /\ games_data = <<>>
    /\ games_processed = 0
    /\ LocalsUnset

Init == InitScan \/ InitExtract

Frac(n, d) == <<n, d>>

\* game = chess.pgn.read_game(text_stream); if game is None: break
ReadGame ==
    /\ pc = "read"
    /\ IF pos < Len(stream)
       THEN /\ game' = parse_game(stream[pos + 1])
            /\ pos' = pos + 1
            /\ pc' = "filter"
       ELSE /\ pc' = "close"
            /\ UNCHANGED <<game, pos>>
    /\ UNCHANGED <<stream, closed, target_move, max_games, games_data,
                   games_processed, result, target, white_elo, black_elo,
                   board, move_count, features>>

ValidResults == {"1-0", "0-1", "1/2-1/2"}

\* TargetOf with the two decisive results' labels exchanged.
TargetOf_exchanged(r) ==
    CASE r = "1-0" -> Frac(0, 1)
      [] r = "0-1" -> Frac(1, 1)
      [] r = "1/2-1/2" -> Frac(1, 2)

\* if result == "1-0": target = 1 ... elif result == "1/2-1/2": target = 0.5
TargetOf(r) ==
    CASE r = "1-0" -> Frac(1, 1)
      [] r = "0-1" -> Frac(0, 1)
      [] r = "1/2-1/2" -> Frac(1, 2)

\* `not s` for a string
EmptyString(s) == s = <<>>

\* if not white_elo or not black_elo or white_elo == "?" or black_elo == "?"
RatingsMissing(w, b) ==
    EmptyString(w) \/ EmptyString(b) \/ w = <<"?">> \/ b = <<"?">>

\* The result and rating filters of one game; every `continue` goes back to
\* read the next game with the locals assigned so far.
Filter ==
    /\ pc = "filter"
    /\ LET r == get(game.headers, "Result", "*")
           w == get(game.headers, "WhiteElo", <<>>)
           b == get(game.headers, "BlackElo", <<>>)
       IN  /\ result' = r
           /\ IF r = "*" \/ r \notin ValidResults
              THEN /\ pc' = "read"
                   /\ UNCHANGED <<target, white_elo, black_elo>>
              ELSE /\ target' = TargetOf(r)
                   /\ IF RatingsMissing(w, b)
                      THEN /\ white_elo' = w /\ black_elo' = b
                           /\ pc' = "read"
                      ELSE IF int_raises(w)
                      THEN /\ white_elo' = w /\ black_elo' = b
                           /\ pc' = "read"
                      ELSE IF int_raises(b)
                      THEN /\ white_elo' = int(w) /\ black_elo' = b
                           /\ pc' = "read"
                      ELSE /\ white_elo' = int(w) /\ black_elo' = int(b)
                           /\ pc' = "board"
    /\ UNCHANGED <<stream, pos, closed, target_move, max_games, games_data,
                   games_processed, game, board, move_count, features>>

\* NewBoard that keeps the board of the game before when there is one.
NewBoard_reused ==
    /\ pc = "board"
    /\ board' = IF board = EmptyBoard THEN game_board(game) ELSE board
    /\ move_count' = 0
    /\ pc' = "replay"
    /\ UNCHANGED <<stream, pos, closed, target_move, max_games, games_data,
                   games_processed, game, result, target, white_elo,
                   black_elo, features>>

\* board = game.board(); move_count = 0
NewBoard ==
    /\ pc = "board"
    /\ board' = game_board(game)
    /\ move_count' = 0
    /\ pc' = "replay"
    /\ UNCHANGED <<stream, pos, closed, target_move, max_games, games_data,
                   games_processed, game, result, target, white_elo,
                   black_elo, features>>

\* ReplayDone that breaks one move late.
ReplayDone_late(count, n) == count > n * 2

\* if move_count >= target_move * 2: break
ReplayDone(count, n) == count >= n * 2

\* One round of `for move in game.mainline_moves()`: the loop ends when the
\* moves run out or at the break; otherwise the move is pushed.
ReplayStep ==
    /\ pc = "replay"
    /\ IF move_count < Len(game.moves) /\ ~ReplayDone(move_count, target_move)
       THEN /\ board' = push(board, game.moves[move_count + 1])
            /\ move_count' = move_count + 1
            /\ pc' = "replay"
       ELSE /\ pc' = "length"
            /\ UNCHANGED <<board, move_count>>
    /\ UNCHANGED <<stream, pos, closed, target_move, max_games, games_data,
                   games_processed, game, result, target, white_elo,
                   black_elo, features>>

\* TooShort that counts full moves instead of half-moves.
TooShort_full_moves(count, n) == count < n

\* if move_count < target_move * 2: continue
TooShort(count, n) == count < n * 2

CheckLength ==
    /\ pc = "length"
    /\ pc' = IF TooShort(move_count, target_move) THEN "read" ELSE "append"
    /\ UNCHANGED <<stream, pos, closed, target_move, max_games, games_data,
                   games_processed, game, result, target, white_elo,
                   black_elo, board, move_count, features>>

\* add_metadata with the rating difference taken the other way round.
add_metadata_black_first(f, w, b, t) ==
    setitem(setitem(setitem(setitem(f,
        "white_elo", w),
        "black_elo", b),
        "elo_diff", b - w),
        "result", t)

\* features['white_elo'] = white_elo ... features['result'] = target
add_metadata(f, w, b, t) ==
    setitem(setitem(setitem(setitem(f,
        "white_elo", w),
        "black_elo", b),
        "elo_diff", w - b),
        "result", t)

\* CapReached that stops one row late.
CapReached_late(cap, processed) == Truthy(cap) /\ processed > cap

\* if max_games and games_processed >= max_games: break
CapReached(cap, processed) == Truthy(cap) /\ processed >= cap

\* The row is built and appended, and the cap is tested.
AppendRow ==
    /\ pc = "append"
    /\ features' = add_metadata(extract_board_features(board),
                                white_elo, black_elo, target)
    /\ games_data' = Append(games_data, features')
    /\ games_processed' = games_processed + 1
    /\ pc' = IF CapReached(max_games, games_processed') THEN "close"
             ELSE "read"
    /\ UNCHANGED <<stream, pos, closed, target_move, max_games, game, result,
                   target, white_elo, black_elo, board, move_count>>

\* finally: text_stream.close(); return games_data
Close ==
    /\ pc = "close"
    /\ closed' = TRUE
    /\ pc' = "done"
    /\ UNCHANGED <<stream, pos, target_move, max_games, games_data,
                   games_processed, game, result, target, white_elo,
                   black_elo, board, move_count, features>>

\* A direct call of extract_board_features returns its dict.
ExtractCall ==
    /\ pc = "call"
    /\ features' = extract_board_features(board)
    /\ pc' = "returned"
    /\ UNCHANGED <<stream, pos, closed, target_move, max_games, games_data,
                   games_processed, game, result, target, white_elo,
                   black_elo, board, move_count>>

Next ==
    \/ ReadGame
    \/ Filter
    \/ NewBoard
    \/ ReplayStep
    \/ CheckLength
    \/ AppendRow
    \/ Close
    \/ ExtractCall

Spec == Init /\ [][Next]_vars

(***************************************************************************)
(* What the claims speak of.                                               *)
(***************************************************************************)

MaterialKeys == {"white_material", "black_material", "material_diff"}
PieceCountKeys ==
    {"white_pawns", "black_pawns", "white_knights", "black_knights",
     "white_bishops", "black_bishops", "white_rooks", "black_rooks",
     "white_queens", "black_queens"}
KingSafetyKeys ==
    {"white_king_attackers", "white_pawn_shield",
     "black_king_attackers", "black_pawn_shield"}
MobilityKeys == {"to_move", "legal_moves"}
GameStateKeys == {"is_check", "is_checkmate", "is_stalemate"}
FeatureKeys ==
    MaterialKeys \cup PieceCountKeys \cup KingSafetyKeys \cup MobilityKeys
    \cup GameStateKeys
MetadataKeys == {"white_elo", "black_elo", "elo_diff", "result"}
RowKeys == FeatureKeys \cup MetadataKeys

\* A rating header the scanner is to accept: present, not empty, not the
\* placeholder, and a string int() parses.
ValidRating(headers, key) ==
    /\ key \in DOMAIN headers
    /\ headers[key] # <<>>
    /\ headers[key] # <<"?">>
    /\ ~int_raises(headers[key])

HasValidResult(g) ==
    "Result" \in DOMAIN g.headers
    /\ g.headers["Result"] \in {"1-0", "0-1", "1/2-1/2"}

\* The outcome label of a result header: 1, 0 or 0.5.
Label(r) ==
    IF r = "1-0" THEN <<1, 1>> ELSE IF r = "0-1" THEN <<0, 1>> ELSE <<1, 2>>

Qualifying(g, n) ==
    /\ HasValidResult(g)
    /\ ValidRating(g.headers, "WhiteElo")
    /\ ValidRating(g.headers, "BlackElo")
    /\ Len(g.moves) >= 2 * n

\* The position after the first k moves of the game, from its own start.
RECURSIVE PositionAfter(_, _)
PositionAfter(g, k) ==
    IF k = 0 THEN game_board(g)
    ELSE push(PositionAfter(g, k - 1), g.moves[k])

\* The row of a qualifying game.
ExpectedRow(g, n) ==
    LET f == extract_board_features(PositionAfter(g, 2 * n))
        w == int(g.headers["WhiteElo"])
        b == int(g.headers["BlackElo"])
    IN  [k \in RowKeys |->
            CASE k = "white_elo" -> w
              [] k = "black_elo" -> b
              [] k = "elo_diff"  -> w - b
              [] k = "result"    -> Label(g.headers["Result"])
              [] OTHER           -> f[k]]

\* The rows of the qualifying games among the records, in order.
RECURSIVE ExpectedRows(_, _)
ExpectedRows(records, n) ==
    IF records = <<>> THEN <<>>
    ELSE LET g == parse_game(Head(records))
         IN  (IF Qualifying(g, n) THEN <<ExpectedRow(g, n)>> ELSE <<>>)
             \o ExpectedRows(Tail(records), n)

Last(q) == q[Len(q)]

\* A step of the scanner that appends a row.
Appends == games_data' # games_data

\* The restriction of a dict to a key set.
Restrict(d, keys) == [k \in keys \cap DOMAIN d |-> d[k]]

\* The files, among the king's and its neighbours, that hold a pawn of the
\* king's colour on a rank strictly ahead of the king.
ShieldFiles(b, king_square, color) ==
    {f \in 0 .. 7 :
        /\ Abs(f - square_file(king_square)) <= 1
        /\ \E r \in 0 .. 7 :
            /\ IF color = WHITE THEN r > square_rank(king_square)
               ELSE r < square_rank(king_square)
            /\ square(f, r) \in DOMAIN b.piece_map
            /\ b.piece_map[square(f, r)] = Piece(PAWN, color)}

\* Material counted type by type.
PointsOf(b, color) ==
      1 * Cardinality(pieces(b, PAWN, color))
    + 3 * Cardinality(pieces(b, KNIGHT, color))
    + 3 * Cardinality(pieces(b, BISHOP, color))
    + 5 * Cardinality(pieces(b, ROOK, color))
    + 9 * Cardinality(pieces(b, QUEEN, color))
    + 0 * Cardinality(pieces(b, KING, color))

(***************************************************************************)
(* The claims.                                                             *)
(***************************************************************************)

\* C1: a row is appended only for a game whose Result header is one of
\* "1-0", "0-1", "1/2-1/2" (never for "*", an absent or any other Result),
\* and the row's result is 1, 0 or 0.5 accordingly.
C1_ResultFilter ==
    [][Appends =>
        /\ HasValidResult(game)
        /\ games_data' = Append(games_data, Last(games_data'))
        /\ Last(games_data')["result"] =
              (CASE game.headers["Result"] = "1-0" -> <<1, 1>>
                 [] game.headers["Result"] = "0-1" -> <<0, 1>>
                 [] game.headers["Result"] = "1/2-1/2" -> <<1, 2>>)]_vars

\* A finished scan that skipped an unfinished game and kept a Black win,
\* whose row carries result 0.
C1_Witness ==
    /\ pc = "done"
    /\ stream = <<"unfinished", "black_wins_short">>
    /\ Len(games_data) = 1
    /\ games_data[1]["result"] = <<0, 1>>

\* C2: a row is appended only for a game whose WhiteElo and BlackElo are
\* present, not empty, not "?" and numeric; the row's white_elo and
\* black_elo are the integers of that game's two headers and elo_diff is
\* white_elo - black_elo.
C2_RatingFilter ==
    [][Appends =>
        /\ ValidRating(game.headers, "WhiteElo")
        /\ ValidRating(game.headers, "BlackElo")
        /\ LET row == Last(games_data')
           IN  /\ row["white_elo"] = int(game.headers["WhiteElo"])
               /\ row["black_elo"] = int(game.headers["BlackElo"])
               /\ row["elo_diff"] = row["white_elo"] - row["black_elo"]]_vars

\* A finished scan that rejected a game with a non-numeric rating and
\* accepted one with ratings 15 and 20.
C2_Witness ==
    /\ pc = "done"
    /\ stream = <<"black_elo_text", "white_wins">>
    /\ Len(games_data) = 1
    /\ games_data[1]["white_elo"] = 15
    /\ games_data[1]["black_elo"] = 20
    /\ games_data[1]["elo_diff"] = -5

\* C3: a row is appended only for a game of at least 2 * target_move
\* half-moves, and its features are those of the position after exactly the
\* first 2 * target_move half-moves of that game.
C3_SnapshotPly ==
    [][Appends =>
        /\ Len(game.moves) >= 2 * target_move
        /\ move_count = 2 * target_move
        /\ Restrict(Last(games_data'), FeatureKeys) =
              extract_board_features(PositionAfter(game, 2 * target_move))]_vars

\* A finished scan at target_move 2 that dropped the three-move game and
\* kept the eight-move game, whose row shows the material after four
\* half-moves (a pawn each gone), not after eight.
C3_Witness ==
    /\ pc = "done"
    /\ target_move = 2
    /\ stream = <<"black_wins_short", "white_wins">>
    /\ Len(games_data) = 1
    /\ games_data[1]["white_material"] = 38
    /\ games_data[1]["black_material"] = 38

\* C4: with a positive max_games the Dataset never holds more than max_games
\* rows, no game is read once it holds max_games rows, and a finished scan
\* with max_games = 1 over a stream with a qualifying game holds exactly
\* the row of the first qualifying game.
C4_Cap ==
    [][max_games # None /\ max_games > 0 =>
        /\ Len(games_data') <= max_games
        /\ (Len(games_data) >= max_games => pos' = pos)
        /\ (pc' = "done" /\ max_games = 1
                /\ ExpectedRows(stream, target_move) # <<>>
            => games_data' = <<Head(ExpectedRows(stream, target_move))>>)]_vars

\* A finished scan with max_games = 1 over two qualifying games: one row,
\* and the second game never read.
C4_Witness ==
    /\ pc = "done"
    /\ max_games = 1
    /\ stream = <<"white_wins", "draw_corner">>
    /\ Len(games_data) = 1
    /\ pos = 1

\* C5: with no cap, at the loop head and at the end the Dataset is exactly
\* the rows of the qualifying games read so far, in input order; so the
\* returned Dataset is that of the whole stream.
C5_QualifyingSubsequence ==
    max_games = None /\ pc \in {"read", "close", "done"} =>
        /\ games_data = ExpectedRows(SubSeq(stream, 1, pos), target_move)
        /\ (pc # "read" => pos = Len(stream))

\* The worked example: (1-0, valid), (1/2-1/2, valid), (0-1, rating "?")
\* gives two rows, result 1 then 0.5.
C5_Witness ==
    /\ pc = "done"
    /\ max_games = None
    /\ stream = ExampleStream
    /\ pos = 3
    /\ Len(games_data) = 2
    /\ games_data[1]["result"] = <<1, 1>>
    /\ games_data[2]["result"] = <<1, 2>>
    /\ games_data[1]["white_elo"] = 15

\* C6: extract_board_features returns the same key set for every board,
\* kings or no kings; the five families' key sets are pairwise disjoint;
\* every row of the Dataset has the feature keys and the four metadata keys.
C6_SchemaStability ==
    /\ pc = "returned" => DOMAIN features = FeatureKeys
    /\ pc \in {"call", "append"} =>
       LET families == <<DOMAIN get_material_features(board),
                         DOMAIN get_piece_count_features(board),
                         DOMAIN get_king_safety_features(board),
                         DOMAIN get_mobility_features(board),
                         DOMAIN get_game_state_features(board)>>
       IN  /\ \A i, j \in 1 .. 5 : i # j => families[i] \cap families[j] = {}
           /\ families = <<MaterialKeys, PieceCountKeys, KingSafetyKeys,
                           MobilityKeys, GameStateKeys>>
    /\ \A i \in DOMAIN games_data : DOMAIN games_data[i] = RowKeys

\* A call returned on a board with no king of either colour.
C6_Witness ==
    /\ pc = "returned"
    /\ king(board, WHITE) = None
    /\ king(board, BLACK) = None
    /\ board.piece_map # EmptyBoard.piece_map
    /\ features["white_king_attackers"] = 0

\* C7: for a colour with a king on the board, on any square, the attacker
\* count is the number of opposing pieces attacking the king's square; for
\* a colour without a king the attacker and pawn-shield counts are 0.
C7_KingAttackers ==
    pc = "returned" =>
        /\ \A c \in BOOLEAN :
            LET k == king(board, c)
                a == IF c = WHITE THEN "white_king_attackers"
                     ELSE "black_king_attackers"
                p == IF c = WHITE THEN "white_pawn_shield"
                     ELSE "black_pawn_shield"
            IN  IF k # None
                THEN features[a] = Cardinality(attackers(board, ~c, k))
                ELSE features[a] = 0 /\ features[p] = 0

\* C8: for a colour with a king on the board the pawn-shield count is the
\* number of files, among the king's and its neighbours, with a pawn of
\* that colour strictly ahead of the king; it lies in 0..3; it is 3 for
\* both colours in the starting position.
C8_PawnShield ==
    pc = "returned" =>
        /\ \A c \in BOOLEAN :
            LET k == king(board, c)
                p == IF c = WHITE THEN "white_pawn_shield"
                     ELSE "black_pawn_shield"
            IN  /\ features[p] \in 0 .. 3
                /\ k # None =>
                     features[p] = Cardinality(ShieldFiles(board, k, c))
        /\ board = StartingBoard =>
             features["white_pawn_shield"] = 3
             /\ features["black_pawn_shield"] = 3

\* C9: white_material and black_material are the point sums of the colours'
\* pieces, material_diff is white_material - black_material, and the
\* starting position has 39, 39 and 0.
C9_Material ==
    pc = "returned" =>
        /\ features["white_material"] = PointsOf(board, WHITE)
        /\ features["black_material"] = PointsOf(board, BLACK)
        /\ features["material_diff"] =
              features["white_material"] - features["black_material"]
        /\ board = StartingBoard =>
             /\ features["white_material"] = 39
             /\ features["black_material"] = 39
             /\ features["material_diff"] = 0

\* A call returned on a board where Black is ahead.
C9_Witness ==
    /\ pc = "returned"
    /\ features["material_diff"] < 0
    /\ features["white_material"] > 0

\* C10: each game is replayed on a board built from its own starting
\* position; the row appended for a game is a function of that game and
\* target_move alone; no step changes a row already in the Dataset; a
\* rejected game leaves the Dataset and the row count as they were.
C10_NoCarryOver ==
    [][/\ pc = "board" => board' = game_board(game)
       /\ Len(games_data') >= Len(games_data)
       /\ SubSeq(games_data', 1, Len(games_data)) = games_data
       /\ Appends =>
            games_data' = Append(games_data, ExpectedRow(game, target_move))
       /\ games_processed' = Len(games_data')
       /\ (pc \in {"filter", "length"} /\ pc' = "read" =>
            games_data' = games_data /\ games_processed' = games_processed)
      ]_vars

\* A finished scan of the corner game after the standard game: the second
\* row is the corner game's own (three pieces a side would be wrong).
C10_Witness ==
    /\ pc = "done"
    /\ target_move = 2
    /\ stream = <<"white_wins", "draw_corner">>
    /\ Len(games_data) = 2
    /\ games_data[2] = ExpectedRow(parse_game("draw_corner"), 2)
    /\ games_data[2]["white_material"] = 2
    /\ games_data[1]["white_material"] = 38

====
